---- MODULE Spec2Model ----
(***************************************************************************)
(* KanMind: boards, tasks and comments behind the Django REST framework    *)
(* view sets of app_board and app_task.  The state is the content of the   *)
(* relational store (users, boards with owner and members, tasks,          *)
(* comments) together with the answer to the last request; every action    *)
(* is one HTTP request run to completion (permission checks, lookup,       *)
(* validation, write).                                                     *)
(***************************************************************************)
EXTENDS Integers, FiniteSets, Sequences, TLC

\* ---- bounds ------------------------------------------------------------
NumUsers == 2
MaxBoards == 1
MaxTasks == 1
MaxComments == 1
\* SpecBoards: more boards
MaxBoardsWide == 2
\* SpecConcurrent: board updates served at the same time
MaxRequests == 2
\* SpecComments: more tasks and comments under one board
MaxTasksWide == 2
MaxCommentsWide == 2

\* ---- value spaces ------------------------------------------------------
\* Requests come from authenticated users.  Of a request body the model
\* keeps the fields the rules below read: a board's title and members, a
\* task's board, assignee_id and reviewer_id.  A task's title, description,
\* status, priority and due_date and a comment's content are taken to be
\* valid, so that a 400 in the model is always about a modelled field.
None == 0
Absent == -1
Users == 1 .. NumUsers
Titles == {"t1", "t2"}

\* ---- state --------------------------------------------------------------
VARIABLES users, boards, tasks, comments, nextBoard, nextTask, nextComment,
          resp, inflight

vars == <<users, boards, tasks, comments, nextBoard, nextTask, nextComment,
          resp, inflight>>

\* What the requests served one at a time leave alone when they fail; the
\* requests in flight (board updates served concurrently) are none of theirs.
store == <<users, boards, tasks, comments, nextBoard, nextTask, nextComment,
           inflight>>

\* ---- HTTP status codes ---------------------------------------------------
HTTP_200_OK == 200
HTTP_201_CREATED == 201
HTTP_204_NO_CONTENT == 204
HTTP_400_BAD_REQUEST == 400
HTTP_401_UNAUTHORIZED == 401
HTTP_403_FORBIDDEN == 403
HTTP_404_NOT_FOUND == 404
HTTP_405_METHOD_NOT_ALLOWED == 405
\* the answer to a request whose handler raised something else than an
\* APIException
HTTP_500_INTERNAL_SERVER_ERROR == 500

\* The answer to a request: the action, the principal, the id the request
\* addressed (for a create, the id of the new entity), the status, the
\* fields named by a validation error and the ids of the entities in the
\* response body.
Response(op, user, id, status) ==
    [op |-> op, user |-> user, id |-> id, status |-> status, err |-> {},
     ids |-> {}]

Without(f, ks) == [k \in DOMAIN f \ ks |-> f[k]]

\* A request body's title: one of Titles, or not supplied.
NotSupplied == "<not supplied>"
TitleInputs == Titles \cup {NotSupplied}

\* A request body's members list: supplied (as the set of its ids) or not.
MemberInputs ==
    {[given |-> TRUE, ids |-> s] : s \in SUBSET Users}
        \cup {[given |-> FALSE, ids |-> {}]}

\* A request body's assignee_id / reviewer_id: a user id, null, or absent.
UserInputs == Users \cup {None, Absent}

BoardIds == 1 .. MaxBoards
TaskIds == 1 .. MaxTasks
CommentIds == 1 .. MaxComments
BoardIdsWide == 1 .. MaxBoardsWide
TaskIdsWide == 1 .. MaxTasksWide
CommentIdsWide == 1 .. MaxCommentsWide
Requests == 1 .. MaxRequests

\* ---- app_auth/api/views.py: LoginView ------------------------------------
\* A user's email is modelled by their id, and so is their password: the
\* wrong password for one user is the password of another.
Password(u) == u

\* django.contrib.auth.authenticate(): the user, if the password is theirs.
authenticate(user_obj, password) ==
    IF password = Password(user_obj) THEN user_obj ELSE None

\* POST /login/ (AllowAny).  When no user has the email, User.objects.get()
\* raises User.DoesNotExist and the except clause evaluates
\* user_obj.DoesNotExist with user_obj still unbound: the UnboundLocalError
\* leaves the view unhandled.  The response's ids hold the user whose token
\* the body carries.
LoginView_post(email, password) ==
    /\ resp' =
        IF email = Absent \/ password = Absent
        THEN Response("login", None, email, HTTP_400_BAD_REQUEST)
        ELSE IF email \notin users
        THEN Response("login", None, email, HTTP_500_INTERNAL_SERVER_ERROR)
        ELSE IF authenticate(email, password) # None
        THEN [Response("login", None, email, HTTP_200_OK)
                EXCEPT !.ids = {authenticate(email, password)}]
        ELSE Response("login", None, email, HTTP_400_BAD_REQUEST)
    /\ UNCHANGED store
\* ---- app_board/api/permissions.py ----------------------------------------

\* Mutant: the owner-only variant of the view/update rule.
IsBoardMemberOrOwner_OwnerOnly(user, obj) ==
    obj.owner = user

IsBoardMemberOrOwner(user, obj) ==
    obj.owner = user \/ user \in obj.members


\* Mutant: a member passes the delete rule as well.
IsBoardOwner_OrMember(user, obj) ==
    obj.owner = user \/ user \in obj.members

IsBoardOwner(user, obj) ==
    obj.owner = user


\* Mutant: the list is open to every authenticated user.
IsMemberOrOwnerOfAnyBoard_Anyone(user) == TRUE

IsMemberOrOwnerOfAnyBoard(user) ==
    \E b \in DOMAIN boards :
        boards[b].owner = user \/ user \in boards[b].members

\* ---- on_delete rules of the models ---------------------------------------

\* Mutant: nothing goes with a deleted board.
Task_board_CASCADE_Nothing(bs) == {}

\* Task.board is on_delete=CASCADE: the tasks that go with a set of boards.
Task_board_CASCADE(bs) ==
    {t \in DOMAIN tasks : tasks[t].board \in bs}

\* Comment.task and Comment.author are on_delete=CASCADE: the comments that
\* go with a set of tasks and a set of users.
Comment_CASCADE(ts, us) ==
    {c \in DOMAIN comments :
        comments[c].task \in ts \/ comments[c].author \in us}

\* Board.owner is on_delete=CASCADE: the boards that go with a set of users.
Board_owner_CASCADE(us) ==
    {b \in DOMAIN boards : boards[b].owner \in us}

\* Model.delete() of a set of boards, with everything that cascades from it.
Board_delete(bs) ==
    /\ boards' = Without(boards, bs)
    /\ tasks' = Without(tasks, Task_board_CASCADE(bs))
    /\ comments' = Without(comments, Comment_CASCADE(Task_board_CASCADE(bs), {}))

\* ---- app_board/api/views.py: BoardViewSet --------------------------------
BoardViewSet_get_queryset(user) ==
    {b \in DOMAIN boards :
        boards[b].owner = user \/ user \in boards[b].members}

\* The object-level permission get_permissions() appends for an action.
BoardViewSet_get_permissions(action, user, obj) ==
    CASE action \in {"retrieve", "partial_update"} -> IsBoardMemberOrOwner(user, obj)
      [] action = "destroy" -> IsBoardOwner(user, obj)
      [] OTHER -> TRUE

\* GET /boards/
BoardList(p) ==
    /\ resp' = IF ~IsMemberOrOwnerOfAnyBoard(p)
               THEN Response("board_list", p, None, HTTP_403_FORBIDDEN)
               ELSE [Response("board_list", p, None, HTTP_200_OK)
                        EXCEPT !.ids = BoardViewSet_get_queryset(p)]
    /\ UNCHANGED store

\* The fields of a board write that fail field validation.
BoardSerializer_errors(title, m, partial) ==
    (IF title = NotSupplied /\ ~partial THEN {"title"} ELSE {})
        \cup (IF (m.given /\ ~(m.ids \subseteq users)) \/ (~m.given /\ ~partial)
              THEN {"members"} ELSE {})


\* Mutant: the owner is added to the members of a new board.
BoardViewSet_perform_create_OwnerJoins(user, title, m) ==
    [title |-> title, owner |-> user, members |-> m.ids \cup {user}]

\* perform_create(): the board saved with owner=request.user, and its
\* members set from the validated list.
BoardViewSet_perform_create(user, title, m) ==
    [title |-> title, owner |-> user, members |-> m.ids]
\* POST /boards/
BoardCreate(p, title, m) ==
    /\ IF BoardSerializer_errors(title, m, FALSE) # {}
       THEN /\ resp' = [Response("board_create", p, None, HTTP_400_BAD_REQUEST)
                           EXCEPT !.err = BoardSerializer_errors(title, m, FALSE)]
            /\ UNCHANGED store
       ELSE /\ boards' = (nextBoard :> BoardViewSet_perform_create(p, title, m))
                            @@ boards
            /\ nextBoard' = nextBoard + 1
            /\ resp' = Response("board_create", p, nextBoard, HTTP_201_CREATED)
            /\ UNCHANGED <<inflight, users, tasks, comments, nextTask, nextComment>>


\* Mutant: every lookup goes through the principal's own boards.
BoardViewSet_get_object_OwnBoards(action, user) ==
    BoardViewSet_get_queryset(user)

\* get_object(): the boards the lookup by pk runs over, Board.objects.all()
\* for retrieve, partial_update and destroy.
BoardViewSet_get_object(action, user) ==
    IF action \in {"retrieve", "partial_update", "destroy"}
    THEN DOMAIN boards
    ELSE BoardViewSet_get_queryset(user)
\* GET /boards/{id}/
BoardRetrieve(p, id) ==
    /\ resp' = IF id \notin BoardViewSet_get_object("retrieve", p)
               THEN Response("board_retrieve", p, id, HTTP_404_NOT_FOUND)
               ELSE IF ~BoardViewSet_get_permissions("retrieve", p, boards[id])
               THEN Response("board_retrieve", p, id, HTTP_403_FORBIDDEN)
               ELSE [Response("board_retrieve", p, id, HTTP_200_OK)
                        EXCEPT !.ids = {id}]
    /\ UNCHANGED store


\* Mutant: the supplied members are merged into the stored ones.
BoardViewSet_partial_update_members_Merge(m) ==
    IF m.given
    THEN m.ids \cup UNION {boards[b].members : b \in DOMAIN boards}
    ELSE {}
\* What partial_update() hands to board.members.set(): the validated
\* members, or the default [] when the request supplied none.
BoardViewSet_partial_update_members(m) ==
    IF m.given THEN m.ids ELSE {}

\* PATCH /boards/{id}/
BoardPartialUpdate(p, id, title, m) ==
    IF id \notin BoardViewSet_get_object("partial_update", p)
    THEN /\ resp' = Response("board_partial_update", p, id, HTTP_404_NOT_FOUND)
         /\ UNCHANGED store
    ELSE IF ~BoardViewSet_get_permissions("partial_update", p, boards[id])
    THEN /\ resp' = Response("board_partial_update", p, id, HTTP_403_FORBIDDEN)
         /\ UNCHANGED store
    ELSE IF BoardSerializer_errors(title, m, TRUE) # {}
    THEN /\ resp' = [Response("board_partial_update", p, id, HTTP_400_BAD_REQUEST)
                        EXCEPT !.err = BoardSerializer_errors(title, m, TRUE)]
         /\ UNCHANGED store
    ELSE /\ boards' = [boards EXCEPT
                ![id].title = IF title = NotSupplied THEN @ ELSE title,
                ![id].members = BoardViewSet_partial_update_members(m)]
         /\ resp' = [Response("board_partial_update", p, id, HTTP_200_OK)
                        EXCEPT !.ids = {id}]
         /\ UNCHANGED <<inflight, users, tasks, comments, nextBoard, nextTask, nextComment>>

\* DELETE /boards/{id}/
BoardDestroy(p, id) ==
    IF id \notin BoardViewSet_get_object("destroy", p)
    THEN /\ resp' = Response("board_destroy", p, id, HTTP_404_NOT_FOUND)
         /\ UNCHANGED store
    ELSE IF ~BoardViewSet_get_permissions("destroy", p, boards[id])
    THEN /\ resp' = Response("board_destroy", p, id, HTTP_403_FORBIDDEN)
         /\ UNCHANGED store
    ELSE /\ Board_delete({id})
         /\ resp' = Response("board_destroy", p, id, HTTP_204_NO_CONTENT)
         /\ UNCHANGED <<inflight, users, nextBoard, nextTask, nextComment>>

\* ---- BoardViewSet.partial_update, statement by statement -----------------
\* Requests are served without locking one another out, so two updates of a
\* board may interleave between any two statements of partial_update().  A
\* request in flight holds its principal, the pk and body it was sent, its
\* position in the handler, and the title of the Board instance it loaded;
\* a request that has ended keeps its body and holds its status.
Idle ==
    [pc |-> "idle", user |-> None, id |-> None, title |-> NotSupplied,
     m |-> [given |-> FALSE, ids |-> {}], instance |-> NotSupplied,
     status |-> None]

\* The request ends with a status; its answer is the last response.
PartialUpdate_done(r, status) ==
    /\ inflight' = [inflight EXCEPT ![r].pc = "done", ![r].status = status]
    /\ resp' = [Response("board_partial_update", inflight[r].user,
                         inflight[r].id, status)
                    EXCEPT !.ids = IF status = HTTP_200_OK
                                   THEN {inflight[r].id} ELSE {}]


\* Mutant: set() adds the given users and removes none.
PartialUpdate_set_Add(old, new) == old \cup new

\* board.members.set(members): the members after the call.
PartialUpdate_set(old, new) == new

\* instance = self.get_object()
PartialUpdate_get_object(r, p, id, title, m) ==
    /\ inflight[r].pc = "idle"
    /\ LET req == [Idle EXCEPT !.user = p, !.id = id, !.title = title, !.m = m]
           End(status) ==
                /\ inflight' = [inflight EXCEPT
                        ![r] = [req EXCEPT !.pc = "done", !.status = status]]
                /\ resp' = Response("board_partial_update", p, id, status)
       IN  IF id \notin BoardViewSet_get_object("partial_update", p)
           THEN End(HTTP_404_NOT_FOUND)
           ELSE IF ~BoardViewSet_get_permissions("partial_update", p, boards[id])
           THEN End(HTTP_403_FORBIDDEN)
           ELSE /\ inflight' = [inflight EXCEPT
                        ![r] = [req EXCEPT !.pc = "is_valid",
                                           !.instance = boards[id].title]]
                /\ UNCHANGED resp
    /\ UNCHANGED <<users, boards, tasks, comments, nextBoard, nextTask, nextComment>>

\* req_serializer.is_valid(raise_exception=True)
PartialUpdate_is_valid(r) ==
    /\ inflight[r].pc = "is_valid"
    /\ IF BoardSerializer_errors(inflight[r].title, inflight[r].m, TRUE) # {}
       THEN PartialUpdate_done(r, HTTP_400_BAD_REQUEST)
       ELSE /\ inflight' = [inflight EXCEPT ![r].pc = "save"]
            /\ UNCHANGED resp
    /\ UNCHANGED <<users, boards, tasks, comments, nextBoard, nextTask, nextComment>>

\* board = req_serializer.save(): the validated title goes onto the instance,
\* the instance is saved, and a validated members list is set.
PartialUpdate_save(r) ==
    /\ inflight[r].pc = "save"
    /\ inflight[r].id \in DOMAIN boards
    /\ LET req == inflight[r]
           title == IF req.title = NotSupplied THEN req.instance ELSE req.title
       IN  /\ boards' = [boards EXCEPT
                    ![req.id].title = title,
                    ![req.id].members =
                        IF req.m.given THEN PartialUpdate_set(@, req.m.ids) ELSE @]
           /\ inflight' = [inflight EXCEPT ![r].pc = "set", ![r].instance = title]
    /\ UNCHANGED <<users, tasks, comments, nextBoard, nextTask, nextComment, resp>>

\* members = req_serializer.validated_data.get('members', [])
\* board.members.set(members)
PartialUpdate_members_set(r) ==
    /\ inflight[r].pc = "set"
    /\ inflight[r].id \in DOMAIN boards
    /\ boards' = [boards EXCEPT ![inflight[r].id].members =
            PartialUpdate_set(@, BoardViewSet_partial_update_members(inflight[r].m))]
    /\ inflight' = [inflight EXCEPT ![r].pc = "board_save"]
    /\ UNCHANGED <<users, tasks, comments, nextBoard, nextTask, nextComment, resp>>

\* board.save(): the instance's fields are written once more.
PartialUpdate_board_save(r) ==
    /\ inflight[r].pc = "board_save"
    /\ inflight[r].id \in DOMAIN boards
    /\ boards' = [boards EXCEPT ![inflight[r].id].title = inflight[r].instance]
    /\ inflight' = [inflight EXCEPT ![r].pc = "respond"]
    /\ UNCHANGED <<users, tasks, comments, nextBoard, nextTask, nextComment, resp>>

\* return Response(res_serializer.data)
PartialUpdate_respond(r) ==
    /\ inflight[r].pc = "respond"
    /\ PartialUpdate_done(r, HTTP_200_OK)
    /\ UNCHANGED <<users, boards, tasks, comments, nextBoard, nextTask, nextComment>>
\* ---- app_task/api/permissions.py -----------------------------------------
\* has_permission for action 'create': the status it ends the request with,
\* or 200 when it lets the request through.

\* Mutant: a board that does not exist is answered as a denial.
IsBoardMemberForTask_has_permission_Forbidden(user, board_id) ==
    IF board_id \in {Absent, None} THEN HTTP_400_BAD_REQUEST
    ELSE IF board_id \notin DOMAIN boards THEN HTTP_403_FORBIDDEN
    ELSE IF user \in boards[board_id].members THEN HTTP_200_OK
    ELSE HTTP_403_FORBIDDEN
IsBoardMemberForTask_has_permission(user, board_id) ==
    IF board_id \in {Absent, None} THEN HTTP_400_BAD_REQUEST
    ELSE IF board_id \notin DOMAIN boards THEN HTTP_404_NOT_FOUND
    ELSE IF user \in boards[board_id].members THEN HTTP_200_OK
    ELSE HTTP_403_FORBIDDEN

IsBoardMemberForTask_has_object_permission(user, obj) ==
    user \in boards[obj.board].members


\* Mutant: board membership decides the deletion of a task.
IsBoardOwnerOrTaskCreator_Member(user, obj) ==
    user \in boards[obj.board].members

IsBoardOwnerOrTaskCreator(user, obj) ==
    LET is_board_owner == boards[obj.board].owner = user
        is_task_creator == obj.created_by # None /\ obj.created_by = user
    IN  is_board_owner \/ is_task_creator


\* Mutant: the board owner may delete a comment as well.
IsCommentCreator_OrBoardOwner(user, obj) ==
    obj.author = user \/ boards[tasks[obj.task].board].owner = user

IsCommentCreator(user, obj) ==
    obj.author # None /\ obj.author = user

\* ---- app_task/api/serializers.py -----------------------------------------
\* Field validation of TaskSerializer: assignee_id and reviewer_id must be
\* null or the pk of an existing user.
TaskSerializer_field_errors(assignee, reviewer) ==
    (IF assignee \in Users /\ assignee \notin users THEN {"assignee_id"} ELSE {})
        \cup (IF reviewer \in Users /\ reviewer \notin users THEN {"reviewer_id"} ELSE {})

\* TaskSerializer.validate(): the first failing check raises.
TaskSerializer_validate(board, assignee, reviewer) ==
    IF assignee \in Users /\ assignee \notin boards[board].members
    THEN {"assignee_id"}
    ELSE IF reviewer \in Users /\ reviewer \notin boards[board].members
    THEN {"reviewer_id"}
    ELSE {}

\* The board validate() checks against: the board of attrs, else the board
\* of the instance.
TaskSerializer_validate_board(board_id, instance) ==
    IF board_id # Absent THEN board_id ELSE instance.board

\* ---- app_task/api/views.py: TaskViewSet ----------------------------------

\* Mutant: the task endpoint serves PATCH, by the method's name.
TaskViewSet_http_method_names_Patch == {"post", "patch", "delete"}
\* Mutant: the task endpoint serves GET as well.
TaskViewSet_http_method_names_Get == {"get", "post", "partial_update", "delete"}
TaskViewSet_http_method_names == {"post", "partial_update", "delete"}

\* The object-level permission get_permissions() appends for an action.
TaskViewSet_get_permissions(action, user, obj) ==
    CASE action = "partial_update" -> IsBoardMemberForTask_has_object_permission(user, obj)
      [] action = "destroy" -> IsBoardOwnerOrTaskCreator(user, obj)
      [] OTHER -> TRUE


\* Mutant: created_by is left empty.
TaskViewSet_perform_create_Empty(user) == None

\* perform_create(): the creator stored with a new task.
TaskViewSet_perform_create(user) == user

\* POST /tasks/
TaskCreate(p, board_id, assignee, reviewer) ==
    /\ LET perm == IsBoardMemberForTask_has_permission(p, board_id)
           ferr == TaskSerializer_field_errors(assignee, reviewer)
           Fail(status, err) ==
                /\ resp' = [Response("task_create", p, None, status) EXCEPT !.err = err]
                /\ UNCHANGED store
       IN  IF perm = HTTP_400_BAD_REQUEST THEN Fail(perm, {"board"})
           ELSE IF perm # HTTP_200_OK THEN Fail(perm, {})
           ELSE IF "post" \notin TaskViewSet_http_method_names
           THEN Fail(HTTP_405_METHOD_NOT_ALLOWED, {})
           ELSE IF ferr # {} THEN Fail(HTTP_400_BAD_REQUEST, ferr)
           ELSE IF TaskSerializer_validate(board_id, assignee, reviewer) # {}
           THEN Fail(HTTP_400_BAD_REQUEST,
                     TaskSerializer_validate(board_id, assignee, reviewer))
           ELSE /\ tasks' = (nextTask :>
                                [board |-> board_id,
                                 assignee |-> IF assignee = Absent THEN None ELSE assignee,
                                 reviewer |-> IF reviewer = Absent THEN None ELSE reviewer,
                                 created_by |-> TaskViewSet_perform_create(p)]) @@ tasks
                /\ nextTask' = nextTask + 1
                /\ resp' = Response("task_create", p, nextTask, HTTP_201_CREATED)
                /\ UNCHANGED <<inflight, users, boards, comments, nextBoard, nextComment>>

\* PATCH /tasks/{id}/ : the permissions of initial() pass for every
\* authenticated user (has_permission is True off 'create'), and dispatch()
\* then looks the method up in http_method_names.
TaskPartialUpdate(p, id, board_id, assignee, reviewer) ==
    LET Fail(status, err) ==
            /\ resp' = [Response("task_partial_update", p, id, status) EXCEPT !.err = err]
            /\ UNCHANGED store
        board == TaskSerializer_validate_board(board_id, tasks[id])
        ferr == TaskSerializer_field_errors(assignee, reviewer)
                    \cup (IF board_id \notin DOMAIN boards \cup {Absent}
                          THEN {"board"} ELSE {})
    IN  IF "patch" \notin TaskViewSet_http_method_names
        THEN Fail(HTTP_405_METHOD_NOT_ALLOWED, {})
        ELSE IF id \notin DOMAIN tasks THEN Fail(HTTP_404_NOT_FOUND, {})
        ELSE IF ~TaskViewSet_get_permissions("partial_update", p, tasks[id])
        THEN Fail(HTTP_403_FORBIDDEN, {})
        ELSE IF ferr # {} THEN Fail(HTTP_400_BAD_REQUEST, ferr)
        ELSE IF TaskSerializer_validate(board, assignee, reviewer) # {}
        THEN Fail(HTTP_400_BAD_REQUEST, TaskSerializer_validate(board, assignee, reviewer))
        ELSE /\ tasks' = [tasks EXCEPT
                    ![id].board = board,
                    ![id].assignee = IF assignee = Absent THEN @ ELSE assignee,
                    ![id].reviewer = IF reviewer = Absent THEN @ ELSE reviewer]
             /\ resp' = Response("task_partial_update", p, id, HTTP_200_OK)
             /\ UNCHANGED <<inflight, users, boards, comments, nextBoard, nextTask, nextComment>>

\* GET /tasks/{id}/ : as for PATCH, initial() lets every authenticated user
\* through (get_permissions() adds nothing for 'retrieve') and dispatch()
\* looks the method up in http_method_names.
TaskRetrieve(p, id) ==
    /\ resp' = IF "get" \notin TaskViewSet_http_method_names
               THEN Response("task_retrieve", p, id, HTTP_405_METHOD_NOT_ALLOWED)
               ELSE IF id \notin DOMAIN tasks
               THEN Response("task_retrieve", p, id, HTTP_404_NOT_FOUND)
               ELSE [Response("task_retrieve", p, id, HTTP_200_OK)
                        EXCEPT !.ids = {id}]
    /\ UNCHANGED store
\* DELETE /tasks/{id}/
TaskDestroy(p, id) ==
    IF "delete" \notin TaskViewSet_http_method_names
    THEN /\ resp' = Response("task_destroy", p, id, HTTP_405_METHOD_NOT_ALLOWED)
         /\ UNCHANGED store
    ELSE IF id \notin DOMAIN tasks
    THEN /\ resp' = Response("task_destroy", p, id, HTTP_404_NOT_FOUND)
         /\ UNCHANGED store
    ELSE IF ~TaskViewSet_get_permissions("destroy", p, tasks[id])
    THEN /\ resp' = Response("task_destroy", p, id, HTTP_403_FORBIDDEN)
         /\ UNCHANGED store
    ELSE /\ tasks' = Without(tasks, {id})
         /\ comments' = Without(comments, Comment_CASCADE({id}, {}))
         /\ resp' = Response("task_destroy", p, id, HTTP_204_NO_CONTENT)
         /\ UNCHANGED <<inflight, users, boards, nextBoard, nextTask, nextComment>>

\* ---- app_task/api/views.py: the two task lists ---------------------------
AssignedTaskListView_get_queryset(user) ==
    {t \in DOMAIN tasks : tasks[t].assignee = user}

ReviewingTaskListView_get_queryset(user) ==
    {t \in DOMAIN tasks : tasks[t].reviewer = user}

\* GET /tasks/assigned-to-me/ (IsAuthenticated only)
AssignedTaskList(p) ==
    /\ resp' = [Response("assigned_to_me", p, None, HTTP_200_OK)
                    EXCEPT !.ids = AssignedTaskListView_get_queryset(p)]
    /\ UNCHANGED store

\* GET /tasks/reviewing/ (IsAuthenticated only)
ReviewingTaskList(p) ==
    /\ resp' = [Response("reviewing", p, None, HTTP_200_OK)
                    EXCEPT !.ids = ReviewingTaskListView_get_queryset(p)]
    /\ UNCHANGED store
\* ---- app_task/api/views.py: CommentViewSet -------------------------------
CommentViewSet_get_queryset(task_pk) ==
    {c \in DOMAIN comments : comments[c].task = task_pk}

CommentViewSet_get_task(task_pk) ==
    IF task_pk \in DOMAIN tasks THEN task_pk ELSE None

\* IsBoardMemberForComment.has_permission: the status it ends the request
\* with, or 200 when it lets the request through.
IsBoardMemberForComment_has_permission(user, task_pk) ==
    LET task == CommentViewSet_get_task(task_pk)
    IN  IF task = None THEN HTTP_404_NOT_FOUND
        ELSE IF user \in boards[tasks[task].board].members THEN HTTP_200_OK
        ELSE HTTP_403_FORBIDDEN

\* The permission get_permissions() appends for 'list' and 'create'.
CommentViewSet_get_permissions(action, user, task_pk) ==
    IF action \in {"list", "create"}
    THEN IsBoardMemberForComment_has_permission(user, task_pk)
    ELSE HTTP_200_OK


\* Mutant: the comment is stored under the task the body names.
CommentViewSet_perform_create_Body(task_pk, body_task) == body_task

\* perform_create(): the task stored with a new comment; the serializer has
\* no task field, so a task named in the body is not looked at.
CommentViewSet_perform_create(task_pk, body_task) ==
    CommentViewSet_get_task(task_pk)

\* GET /tasks/{task_pk}/comments/
CommentList(p, task_pk) ==
    /\ LET perm == CommentViewSet_get_permissions("list", p, task_pk)
       IN  resp' = IF perm # HTTP_200_OK
                   THEN Response("comment_list", p, task_pk, perm)
                   ELSE [Response("comment_list", p, task_pk, HTTP_200_OK)
                            EXCEPT !.ids = CommentViewSet_get_queryset(task_pk)]
    /\ UNCHANGED store

\* POST /tasks/{task_pk}/comments/
CommentCreate(p, task_pk, body_task) ==
    /\ LET perm == CommentViewSet_get_permissions("create", p, task_pk)
       IN  IF perm # HTTP_200_OK
           THEN /\ resp' = Response("comment_create", p, None, perm)
                /\ UNCHANGED store
           ELSE /\ comments' = (nextComment :>
                        [task |-> CommentViewSet_perform_create(task_pk, body_task),
                         author |-> p]) @@ comments
                /\ nextComment' = nextComment + 1
                /\ resp' = Response("comment_create", p, nextComment, HTTP_201_CREATED)
                /\ UNCHANGED <<inflight, users, boards, tasks, nextBoard, nextTask>>

\* GET /tasks/{task_pk}/comments/{id}/ : 'get' is in http_method_names and
\* the router maps it to retrieve(), for which get_permissions() appends
\* nothing to IsAuthenticated; the comment is looked up in get_queryset().
CommentRetrieve(p, task_pk, id) ==
    /\ resp' = IF CommentViewSet_get_permissions("retrieve", p, task_pk) # HTTP_200_OK
               THEN Response("comment_retrieve", p, id,
                             CommentViewSet_get_permissions("retrieve", p, task_pk))
               ELSE IF id \notin CommentViewSet_get_queryset(task_pk)
               THEN Response("comment_retrieve", p, id, HTTP_404_NOT_FOUND)
               ELSE [Response("comment_retrieve", p, id, HTTP_200_OK)
                        EXCEPT !.ids = {id}]
    /\ UNCHANGED store
\* DELETE /tasks/{task_pk}/comments/{id}/
CommentDestroy(p, task_pk, id) ==
    IF id \notin CommentViewSet_get_queryset(task_pk)
    THEN /\ resp' = Response("comment_destroy", p, id, HTTP_404_NOT_FOUND)
         /\ UNCHANGED store
    ELSE IF ~IsCommentCreator(p, comments[id])
    THEN /\ resp' = Response("comment_destroy", p, id, HTTP_403_FORBIDDEN)
         /\ UNCHANGED store
    ELSE /\ comments' = Without(comments, {id})
         /\ resp' = Response("comment_destroy", p, id, HTTP_204_NO_CONTENT)
         /\ UNCHANGED <<inflight, users, boards, tasks, nextBoard, nextTask, nextComment>>

\* ---- deletion of a user (django.contrib.auth User row) --------------------
\* The on_delete rules of the models decide what goes with the user: owned
\* boards cascade (and their tasks and comments), authored comments cascade,
\* memberships go with the row, and a task's assignee, reviewer and
\* created_by are SET_NULL.
Task_SET_NULL(t, u) ==
    [t EXCEPT !.assignee = IF @ = u THEN None ELSE @,
              !.reviewer = IF @ = u THEN None ELSE @,
              !.created_by = IF @ = u THEN None ELSE @]

UserDelete(u) ==
    LET bs == Board_owner_CASCADE({u})
        ts == Task_board_CASCADE(bs)
        cs == Comment_CASCADE(ts, {u})
    IN  /\ users' = users \ {u}
        /\ boards' = [b \in DOMAIN boards \ bs |->
                        [boards[b] EXCEPT !.members = @ \ {u}]]
        /\ tasks' = [t \in DOMAIN tasks \ ts |-> Task_SET_NULL(tasks[t], u)]
        /\ comments' = Without(comments, cs)
        /\ resp' = Response("user_delete", None, u, None)
        /\ UNCHANGED <<inflight, nextBoard, nextTask, nextComment>>

\* ---- the system ------------------------------------------------------------
\* Ids are handed out in sequence and never reused; the bounds cap how many
\* boards, tasks and comments a run creates.  A task create may name the id
\* one past the last board, which never exists.
Init ==
    /\ users = Users
    /\ boards = [b \in {} |-> None]
    /\ tasks = [t \in {} |-> None]
    /\ comments = [c \in {} |-> None]
    /\ nextBoard = 1
    /\ nextTask = 1
    /\ nextComment = 1
    /\ resp = Response("none", None, None, None)
    /\ inflight = [r \in Requests |-> Idle]

Next ==
    \/ \E p \in users : BoardList(p)
    \/ \E p \in users, title \in TitleInputs, m \in MemberInputs :
            nextBoard <= MaxBoards /\ BoardCreate(p, title, m)
    \/ \E p \in users, id \in BoardIds : BoardRetrieve(p, id)
    \/ \E p \in users, id \in BoardIds, title \in TitleInputs, m \in MemberInputs :
            BoardPartialUpdate(p, id, title, m)
    \/ \E p \in users, id \in BoardIds : BoardDestroy(p, id)
    \/ \E p \in users, board_id \in BoardIds \cup {MaxBoards + 1, Absent},
          assignee \in UserInputs, reviewer \in UserInputs :
            nextTask <= MaxTasks /\ TaskCreate(p, board_id, assignee, reviewer)
    \/ \E p \in users, id \in TaskIds, board_id \in BoardIds \cup {Absent},
          assignee \in UserInputs, reviewer \in UserInputs :
            TaskPartialUpdate(p, id, board_id, assignee, reviewer)
    \/ \E p \in users, id \in TaskIds : TaskRetrieve(p, id)
    \/ \E p \in users, id \in TaskIds : TaskDestroy(p, id)
    \/ \E p \in users : AssignedTaskList(p)
    \/ \E p \in users : ReviewingTaskList(p)
    \/ \E p \in users, task_pk \in TaskIds : CommentList(p, task_pk)
    \/ \E p \in users, task_pk \in TaskIds, body_task \in TaskIds \cup {None} :
            nextComment <= MaxComments /\ CommentCreate(p, task_pk, body_task)
    \/ \E p \in users, task_pk \in TaskIds, id \in CommentIds :
            CommentRetrieve(p, task_pk, id)
    \/ \E p \in users, task_pk \in TaskIds, id \in CommentIds :
            CommentDestroy(p, task_pk, id)
    \/ \E u \in users : UserDelete(u)
    \/ \E email \in Users \cup {Absent}, password \in Users \cup {Absent} :
            LoginView_post(email, password)

Spec == Init /\ [][Next]_vars

\* The board endpoints over several boards: boards created, read, listed,
\* their membership replaced, and deleted, and a task created on any of them
\* (without assignee and reviewer), updated with a board and an assignee,
\* and deleted.
NextBoards ==
    \/ \E p \in users : BoardList(p)
    \/ \E p \in users, m \in MemberInputs :
            nextBoard <= MaxBoardsWide /\ BoardCreate(p, "t1", m)
    \/ \E p \in users, id \in BoardIdsWide : BoardRetrieve(p, id)
    \/ \E p \in users, id \in BoardIdsWide, m \in MemberInputs :
            BoardPartialUpdate(p, id, NotSupplied, m)
    \/ \E p \in users, id \in BoardIdsWide : BoardDestroy(p, id)
    \/ \E p \in users, board_id \in BoardIdsWide \cup {Absent} :
            nextTask <= MaxTasks /\ TaskCreate(p, board_id, Absent, Absent)
    \/ \E p \in users, id \in TaskIds, board_id \in BoardIdsWide \cup {Absent},
          assignee \in UserInputs :
            TaskPartialUpdate(p, id, board_id, assignee, Absent)
    \/ \E p \in users, id \in TaskIds : TaskDestroy(p, id)

SpecBoards == Init /\ [][NextBoards]_vars

\* Board updates served concurrently: a board is created, and each request
\* id carries one update of it, with a title and a members list, through the
\* statements of partial_update() in any interleaving with the others.
NextConcurrent ==
    \/ \E p \in users, m \in MemberInputs :
            nextBoard <= MaxBoards /\ BoardCreate(p, "t1", m)
    \/ \E r \in Requests, p \in users, id \in BoardIds, title \in Titles,
          L \in SUBSET Users :
            PartialUpdate_get_object(r, p, id, title, [given |-> TRUE, ids |-> L])
    \/ \E r \in Requests : PartialUpdate_is_valid(r)
    \/ \E r \in Requests : PartialUpdate_save(r)
    \/ \E r \in Requests : PartialUpdate_members_set(r)
    \/ \E r \in Requests : PartialUpdate_board_save(r)
    \/ \E r \in Requests : PartialUpdate_respond(r)

SpecConcurrent == Init /\ [][NextConcurrent]_vars
\* The comment endpoints over several tasks: one board whose membership
\* changes, tasks created without assignee and reviewer (no comment handler
\* reads them), and comments listed, created and deleted under every task id.
NextComments ==
    \/ \E p \in users, m \in MemberInputs :
            nextBoard <= MaxBoards /\ BoardCreate(p, "t1", m)
    \/ \E p \in users, id \in BoardIds, m \in MemberInputs :
            BoardPartialUpdate(p, id, NotSupplied, m)
    \/ \E p \in users, id \in BoardIds : BoardDestroy(p, id)
    \/ \E p \in users, board_id \in BoardIds :
            nextTask <= MaxTasksWide /\ TaskCreate(p, board_id, Absent, Absent)
    \/ \E p \in users, id \in TaskIdsWide : TaskDestroy(p, id)
    \/ \E p \in users, task_pk \in TaskIdsWide : CommentList(p, task_pk)
    \/ \E p \in users, task_pk \in TaskIdsWide, body_task \in TaskIdsWide \cup {None} :
            nextComment <= MaxCommentsWide /\ CommentCreate(p, task_pk, body_task)
    \/ \E p \in users, task_pk \in TaskIdsWide, id \in CommentIdsWide :
            CommentDestroy(p, task_pk, id)

SpecComments == Init /\ [][NextComments]_vars

TypeOK ==
    /\ users \subseteq Users
    /\ DOMAIN boards \subseteq BoardIds \cup BoardIdsWide
    /\ DOMAIN tasks \subseteq TaskIds \cup TaskIdsWide
    /\ DOMAIN comments \subseteq CommentIds \cup CommentIdsWide

\* ==== claims ===============================================================

\* C1 -- Board delete: a DELETE of an existing board B by principal p
\* succeeds (204) and removes B if and only if p is B's owner; for every
\* other principal, member of B or not, the request is denied (403) and B is
\* still there, unchanged.
C1_BoardDelete ==
    [][resp'.op = "board_destroy" =>
        LET p == resp'.user
            id == resp'.id
        IN  (id \in DOMAIN boards /\ BoardDestroy(p, id)) =>
                IF p = boards[id].owner
                THEN resp'.status = HTTP_204_NO_CONTENT /\ id \notin DOMAIN boards'
                ELSE /\ resp'.status = HTTP_403_FORBIDDEN
                     /\ id \in DOMAIN boards'
                     /\ boards'[id] = boards[id]]_vars

\* A member of the board who is not its owner was denied the delete.
C1_Witness ==
    /\ resp.op = "board_destroy"
    /\ resp.status = HTTP_403_FORBIDDEN
    /\ resp.id \in DOMAIN boards
    /\ resp.user \in boards[resp.id].members
    /\ resp.user # boards[resp.id].owner

\* C2 -- Board view and modify: retrieve and partial update of an existing
\* board B by p are permitted if and only if p is B's owner or one of B's
\* members at the time of the request; a principal who is neither is
\* answered 403, is shown nothing and leaves B's title and members as they
\* were.
C2_BoardViewModify ==
    [][resp'.op \in {"board_retrieve", "board_partial_update"} =>
        LET p == resp'.user
            id == resp'.id
            allowed == p = boards[id].owner \/ p \in boards[id].members
        IN  id \in DOMAIN boards =>
                /\ BoardRetrieve(p, id) =>
                    /\ allowed => resp'.status = HTTP_200_OK /\ resp'.ids = {id}
                    /\ ~allowed => resp'.status = HTTP_403_FORBIDDEN /\ resp'.ids = {}
                /\ \A title \in TitleInputs, m \in MemberInputs :
                    BoardPartialUpdate(p, id, title, m) =>
                        /\ allowed => resp'.status \in {HTTP_200_OK, HTTP_400_BAD_REQUEST}
                        /\ ~allowed => /\ resp'.status = HTTP_403_FORBIDDEN
                                       /\ resp'.ids = {}
                                       /\ boards' = boards]_vars

\* A principal who is not the owner has updated the board.
C2_Witness ==
    /\ resp.op = "board_partial_update"
    /\ resp.status = HTTP_200_OK
    /\ resp.id \in DOMAIN boards
    /\ resp.user # boards[resp.id].owner

\* C3 -- Task delete: a DELETE of an existing task T by p succeeds (204) if
\* and only if p is the owner of T's board or T.created_by is set and is p;
\* otherwise it is denied (403) and T stays.  Membership of the board does
\* not enter, and with created_by empty only the board owner passes.
C3_TaskDelete ==
    [][resp'.op = "task_destroy" =>
        LET p == resp'.user
            id == resp'.id
        IN  (id \in DOMAIN tasks /\ TaskDestroy(p, id)) =>
                LET T == tasks[id]
                    may == \/ p = boards[T.board].owner
                           \/ (T.created_by # None /\ T.created_by = p)
                IN  IF may
                    THEN resp'.status = HTTP_204_NO_CONTENT /\ id \notin DOMAIN tasks'
                    ELSE resp'.status = HTTP_403_FORBIDDEN /\ tasks' = tasks]_vars

\* A member of the task's board, neither its owner nor the task's creator,
\* was denied the delete.
C3_Witness ==
    /\ resp.op = "task_destroy"
    /\ resp.status = HTTP_403_FORBIDDEN
    /\ resp.id \in DOMAIN tasks
    /\ resp.user \in boards[tasks[resp.id].board].members

\* C4 -- Comment delete: a DELETE of an existing comment C succeeds only if
\* the principal is C's author; any other principal, the owner of the board
\* and the creator of the task included, leaves C in place and, addressing C
\* under its task, is answered 403.
C4_CommentDelete ==
    [][resp'.op = "comment_destroy" =>
        LET p == resp'.user
            id == resp'.id
        IN  \A task_pk \in TaskIds :
                (id \in DOMAIN comments /\ CommentDestroy(p, task_pk, id)) =>
                    /\ resp'.status = HTTP_204_NO_CONTENT => p = comments[id].author
                    /\ p # comments[id].author =>
                            /\ comments' = comments
                            /\ task_pk = comments[id].task =>
                                    resp'.status = HTTP_403_FORBIDDEN]_vars

\* The owner of the board, who also created the task, was denied the delete
\* of another user's comment.
C4_Witness ==
    /\ resp.op = "comment_destroy"
    /\ resp.status = HTTP_403_FORBIDDEN
    /\ resp.id \in DOMAIN comments
    /\ resp.user # comments[resp.id].author
    /\ resp.user = tasks[comments[resp.id].task].created_by
    /\ resp.user = boards[tasks[comments[resp.id].task].board].owner

\* C5 -- Task partial update: a PATCH of an existing task T by p is accepted
\* (200, or 400 for a body that fails validation) when p is a member of T's
\* board, and is denied with 403 when p is not.
C5_TaskPartialUpdate ==
    (resp.op = "task_partial_update" /\ resp.id \in DOMAIN tasks) =>
        IF resp.user \in boards[tasks[resp.id].board].members
        THEN resp.status \in {HTTP_200_OK, HTTP_400_BAD_REQUEST}
        ELSE resp.status = HTTP_403_FORBIDDEN

\* C6 -- Task create: creating a task on an existing board B succeeds (201)
\* only if the principal is in B.members, the owner included; the new task
\* is stored under B with created_by the principal; a principal outside
\* B.members is denied (403), and no request that fails creates a task.
C6_TaskCreate ==
    [][resp'.op = "task_create" =>
        LET p == resp'.user
        IN  \A b \in BoardIdsWide, a \in UserInputs, r \in UserInputs :
                (b \in DOMAIN boards /\ TaskCreate(p, b, a, r)) =>
                    /\ resp'.status = HTTP_201_CREATED =>
                            /\ p \in boards[b].members
                            /\ resp'.id \notin DOMAIN tasks
                            /\ DOMAIN tasks' = DOMAIN tasks \cup {resp'.id}
                            /\ tasks'[resp'.id].board = b
                            /\ tasks'[resp'.id].created_by = p
                    /\ resp'.status # HTTP_201_CREATED => tasks' = tasks
                    /\ p \notin boards[b].members =>
                            resp'.status = HTTP_403_FORBIDDEN]_vars

\* A member created a task on a board whose owner is not among its members,
\* while there is another board, of which the creator is not a member.
C6_Witness ==
    /\ resp.op = "task_create"
    /\ resp.status = HTTP_201_CREATED
    /\ resp.id \in DOMAIN tasks
    /\ tasks[resp.id].created_by = resp.user
    /\ boards[tasks[resp.id].board].owner \notin boards[tasks[resp.id].board].members
    /\ \E b \in DOMAIN boards : resp.user \notin boards[b].members

\* C7 -- Comment list and create: for the task T of the URL, listing T's
\* comments and creating a comment on T are permitted if and only if the
\* principal is in the members of T's board; the list holds only comments
\* whose task is T, and a created comment has the principal as author and T
\* as task, whatever task the request body names.
C7_CommentListCreate ==
    [][resp'.op \in {"comment_list", "comment_create"} =>
        LET p == resp'.user
        IN  \A task_pk \in TaskIdsWide :
                task_pk \in DOMAIN tasks =>
                    LET member == p \in boards[tasks[task_pk].board].members
                    IN  /\ CommentList(p, task_pk) =>
                            /\ member <=> resp'.status = HTTP_200_OK
                            /\ ~member <=> resp'.status = HTTP_403_FORBIDDEN
                            /\ \A c \in resp'.ids :
                                    c \in DOMAIN comments /\ comments[c].task = task_pk
                            /\ ~member => resp'.ids = {}
                        /\ \A body_task \in TaskIdsWide \cup {None} :
                            CommentCreate(p, task_pk, body_task) =>
                                /\ member <=> resp'.status = HTTP_201_CREATED
                                /\ ~member <=> resp'.status = HTTP_403_FORBIDDEN
                                /\ ~member => comments' = comments
                                /\ member =>
                                    /\ resp'.id \notin DOMAIN comments
                                    /\ DOMAIN comments' = DOMAIN comments \cup {resp'.id}
                                    /\ comments'[resp'.id].author = p
                                    /\ comments'[resp'.id].task = task_pk
                                    /\ \A c \in DOMAIN comments :
                                            comments'[c] = comments[c]]_vars

\* A member listed the comments of a task and got some, while a comment of
\* another task of the board exists and is not in the list.
C7_Witness ==
    /\ resp.op = "comment_list"
    /\ resp.status = HTTP_200_OK
    /\ resp.ids # {}
    /\ \E c \in DOMAIN comments : comments[c].task # resp.id /\ c \notin resp.ids

\* C8 -- Assignee/reviewer validation: a task write (create or update) by an
\* authorized principal that supplies an assignee A succeeds if and only if
\* A is among the members of the task's board at that moment, and otherwise
\* fails with a validation error naming assignee_id and changes no task;
\* the same holds for a supplied reviewer (reviewer_id), and null or an
\* absent field is not rejected.
C8_AssigneeReviewerValidation ==
    [][resp'.op \in {"task_create", "task_partial_update"} =>
        LET p == resp'.user
            Rule(board, a, r, ok) ==
                LET ms == boards[board].members
                IN  /\ (a \in Users /\ a \notin ms) =>
                            /\ resp'.status = HTTP_400_BAD_REQUEST
                            /\ "assignee_id" \in resp'.err
                            /\ tasks' = tasks
                    /\ (r \in Users /\ r \notin ms /\ (a \in Users => a \in ms)) =>
                            /\ resp'.status = HTTP_400_BAD_REQUEST
                            /\ "reviewer_id" \in resp'.err
                            /\ tasks' = tasks
                    /\ ((a \in Users => a \in ms) /\ (r \in Users => r \in ms)) =>
                            resp'.status = ok
        IN  \A a \in UserInputs, r \in UserInputs :
                /\ \A b \in DOMAIN boards :
                        (p \in boards[b].members /\ TaskCreate(p, b, a, r)) =>
                            Rule(b, a, r, HTTP_201_CREATED)
                /\ \A id \in DOMAIN tasks :
                        (/\ p \in boards[tasks[id].board].members
                         /\ TaskPartialUpdate(p, id, Absent, a, r)) =>
                            Rule(tasks[id].board, a, r, HTTP_200_OK)]_vars

\* C9 -- Cascade / referential integrity: in every state every stored task
\* is under a board that exists and every stored comment is under a task
\* that exists; no task or comment of a deleted board remains.
C9_ReferentialIntegrity ==
    /\ \A t \in DOMAIN tasks : tasks[t].board \in DOMAIN boards
    /\ \A c \in DOMAIN comments : comments[c].task \in DOMAIN tasks
    /\ \A b \in (1 .. nextBoard - 1) \ DOMAIN boards :
            /\ \A t \in DOMAIN tasks : tasks[t].board # b
            /\ \A c \in DOMAIN comments :
                    comments[c].task \in DOMAIN tasks => tasks[comments[c].task].board # b

\* The owner has deleted a board on which a task had been created and
\* commented; no task and no comment is left.
C9_Witness ==
    /\ resp.op = "board_destroy"
    /\ resp.status = HTTP_204_NO_CONTENT
    /\ resp.id \notin DOMAIN boards
    /\ nextTask > 1
    /\ nextComment > 1
    /\ DOMAIN tasks = {}
    /\ DOMAIN comments = {}

\* C10 -- Board list gate: a list-boards request is denied with 403 exactly
\* when the principal owns no board and is a member of none, in every
\* reachable state (before a first board, after losing the last one, and no
\* longer once one is owned or joined); otherwise it is answered 200 with
\* the principal's boards, never with an empty list.
C10_BoardListGate ==
    resp.op = "board_list" =>
        LET mine == {b \in DOMAIN boards :
                        boards[b].owner = resp.user \/ resp.user \in boards[b].members}
        IN  /\ mine = {} <=> resp.status = HTTP_403_FORBIDDEN
            /\ mine # {} <=> resp.status = HTTP_200_OK
            /\ resp.status = HTTP_200_OK => resp.ids = mine
            /\ resp.status = HTTP_403_FORBIDDEN => resp.ids = {}

\* A principal who was a member of a board (they created a task on it) and
\* has been removed from its members is denied the list, after the other
\* board was deleted.
C10_Witness ==
    /\ resp.op = "board_list"
    /\ resp.status = HTTP_403_FORBIDDEN
    /\ \E t \in DOMAIN tasks : tasks[t].created_by = resp.user
    /\ Cardinality(DOMAIN boards) < nextBoard - 1

\* C11 -- Board update replaces membership: after a successful partial
\* update of board B that supplies a members list L, B.members is exactly
\* the set of users in L (no earlier member outside L remains, and L = []
\* leaves B without members), and B.owner is unchanged whether or not the
\* owner is in L.
C11_BoardUpdateReplacesMembers ==
    [][resp'.op = "board_partial_update" =>
        LET p == resp'.user
            id == resp'.id
        IN  \A title \in TitleInputs, L \in SUBSET Users :
                (/\ id \in DOMAIN boards
                 /\ BoardPartialUpdate(p, id, title, [given |-> TRUE, ids |-> L])
                 /\ resp'.status = HTTP_200_OK) =>
                    /\ boards'[id].members = L
                    /\ boards'[id].owner = boards[id].owner]_vars

\* An update has left a board without members: the board had a member
\* before (a task was created on it), and its owner is still set.
C11_Witness ==
    /\ resp.op = "board_partial_update"
    /\ resp.status = HTTP_200_OK
    /\ resp.id \in DOMAIN boards
    /\ boards[resp.id].members = {}
    /\ boards[resp.id].owner = resp.user
    /\ \E t \in DOMAIN tasks : tasks[t].board = resp.id

\* C12 -- Board create: any authenticated principal, one who has no board
\* included, may create a board; a create with a title and a members list L
\* of existing users succeeds (201), and the new board has the principal as
\* owner and exactly L as members, so the owner is a member only if L names
\* them.
C12_BoardCreate ==
    [][resp'.op = "board_create" =>
        LET p == resp'.user
        IN  \A title \in Titles, L \in SUBSET users :
                BoardCreate(p, title, [given |-> TRUE, ids |-> L]) =>
                    /\ resp'.status = HTTP_201_CREATED
                    /\ resp'.id \notin DOMAIN boards
                    /\ DOMAIN boards' = DOMAIN boards \cup {resp'.id}
                    /\ boards'[resp'.id].owner = p
                    /\ boards'[resp'.id].members = L
                    /\ \A b \in DOMAIN boards : boards'[b] = boards[b]]_vars

\* A principal who had no board (they neither own nor are a member of the
\* other board) created one of which they are the owner and not a member.
C12_Witness ==
    /\ resp.op = "board_create"
    /\ resp.status = HTTP_201_CREATED
    /\ resp.id \in DOMAIN boards
    /\ boards[resp.id].owner = resp.user
    /\ resp.user \notin boards[resp.id].members
    /\ \E b \in DOMAIN boards \ {resp.id} :
            boards[b].owner # resp.user /\ resp.user \notin boards[b].members

\* C13 -- Update validates against the task's own board: a PATCH of an
\* existing task T by a member of T's board that names another existing
\* board B2 together with an assignee who is a member of B2 and not of T's
\* board is rejected by the membership check, evaluated against T's board: a
\* validation error (400) naming assignee_id, with T unchanged.
C13_UpdateValidatesOwnBoard ==
    [][resp'.op = "task_partial_update" =>
        LET p == resp'.user
            id == resp'.id
        IN  \A B2 \in DOMAIN boards, a \in Users :
                (/\ id \in DOMAIN tasks
                 /\ p \in boards[tasks[id].board].members
                 /\ B2 # tasks[id].board
                 /\ a \in boards[B2].members
                 /\ a \notin boards[tasks[id].board].members
                 /\ TaskPartialUpdate(p, id, B2, a, Absent)) =>
                    /\ resp'.status = HTTP_400_BAD_REQUEST
                    /\ "assignee_id" \in resp'.err
                    /\ tasks' = tasks]_vars

\* C14 -- Parent-resolution errors precede the membership decision: for
\* every principal, whatever boards they belong to, a task create without a
\* board id fails with a validation error (400, naming board), a task create
\* naming a board id that does not exist fails with 404, and a comment list
\* or create under a task id that does not exist fails with 404; none of
\* them is answered 403 and none creates or changes anything.
C14_ParentResolution ==
    [][resp'.op \in {"task_create", "comment_list", "comment_create"} =>
        LET p == resp'.user
        IN  /\ \A a \in UserInputs, r \in UserInputs :
                /\ TaskCreate(p, Absent, a, r) =>
                        /\ resp'.status = HTTP_400_BAD_REQUEST
                        /\ "board" \in resp'.err
                        /\ UNCHANGED store
                /\ \A b \in (1 .. MaxBoards + 1) \ DOMAIN boards :
                        TaskCreate(p, b, a, r) =>
                            resp'.status = HTTP_404_NOT_FOUND /\ UNCHANGED store
            /\ \A t \in TaskIds \ DOMAIN tasks :
                /\ CommentList(p, t) =>
                        /\ resp'.status = HTTP_404_NOT_FOUND
                        /\ resp'.ids = {}
                        /\ UNCHANGED store
                /\ \A body_task \in TaskIds \cup {None} :
                        CommentCreate(p, t, body_task) =>
                            resp'.status = HTTP_404_NOT_FOUND /\ UNCHANGED store]_vars

\* A member of the one board there is was answered 404 for a task create:
\* the board id they named does not exist.
C14_Witness ==
    /\ resp.op = "task_create"
    /\ resp.status = HTTP_404_NOT_FOUND
    /\ \E b \in DOMAIN boards : resp.user \in boards[b].members
    /\ DOMAIN tasks = {}

C16_WriteTimeOnlyCheck ==
    [][/\ resp'.op = "board_partial_update" => tasks' = tasks
       /\ resp'.op = "task_partial_update" =>
            LET p == resp'.user
                id == resp'.id
                ms == boards[tasks[id].board].members
            IN  (/\ id \in DOMAIN tasks
                 /\ p \in ms
                 /\ tasks[id].assignee \in Users \ ms) =>
                    /\ \A r \in ms \cup {None, Absent} :
                            TaskPartialUpdate(p, id, Absent, Absent, r) =>
                                /\ resp'.status = HTTP_200_OK
                                /\ tasks'[id].assignee = tasks[id].assignee
                    /\ TaskPartialUpdate(p, id, Absent, tasks[id].assignee, Absent) =>
                                /\ resp'.status = HTTP_400_BAD_REQUEST
                                /\ "assignee_id" \in resp'.err
                                /\ tasks' = tasks]_vars

C18_LoginFailure ==
    [][resp'.op = "login" =>
        \A email \in Users, password \in Users :
            (/\ LoginView_post(email, password)
             /\ email \notin users \/ password # Password(email)) =>
                /\ resp'.status = HTTP_401_UNAUTHORIZED
                /\ resp'.ids = {}]_vars

C20_CommentReadConfidentiality ==
    (/\ resp.op \in {"comment_list", "comment_retrieve"}
     /\ resp.status = HTTP_200_OK) =>
        \A c \in resp.ids :
            resp.user \in boards[tasks[comments[c].task].board].members

\* C21 -- Task read confidentiality after a membership change: every task
\* the assigned-to-me and the reviewing list return belongs to a board of
\* which the principal is a member at the time of the request, also after
\* the principal was made assignee or reviewer and then removed from the
\* board's members.
C21_TaskListConfidentiality ==
    resp.op \in {"assigned_to_me", "reviewing"} =>
        \A t \in resp.ids :
            /\ t \in DOMAIN tasks
            /\ resp.user \in boards[tasks[t].board].members

\* C22 -- A board partial update that supplies only a title changes the
\* title and leaves the board's members unchanged; more generally a
\* successful partial update changes only the fields the request supplies,
\* and never the owner.
C22_BoardUpdateOnlySupplied ==
    [][resp'.op = "board_partial_update" =>
        LET p == resp'.user
            id == resp'.id
        IN  \A title \in TitleInputs, m \in MemberInputs :
                (/\ id \in DOMAIN boards
                 /\ BoardPartialUpdate(p, id, title, m)
                 /\ resp'.status = HTTP_200_OK) =>
                    /\ boards'[id].title =
                            IF title = NotSupplied THEN boards[id].title ELSE title
                    /\ boards'[id].members =
                            IF m.given THEN m.ids ELSE boards[id].members
                    /\ boards'[id].owner = boards[id].owner]_vars

\* C23 -- A task's board never changes after creation: no step moves a
\* stored task to another board, and no task update, one whose body names a
\* different board included, changes the board or the created_by of a task.
C23_TaskBoardNeverChanges ==
    [][/\ \A t \in DOMAIN tasks \cap DOMAIN tasks' :
            tasks'[t].board = tasks[t].board
       /\ resp'.op = "task_partial_update" =>
            \A id \in TaskIds, board_id \in BoardIdsWide \cup {Absent},
               a \in UserInputs, r \in UserInputs :
                TaskPartialUpdate(resp'.user, id, board_id, a, r) =>
                    /\ DOMAIN tasks' = DOMAIN tasks
                    /\ \A t \in DOMAIN tasks :
                            /\ tasks'[t].board = tasks[t].board
                            /\ tasks'[t].created_by = tasks[t].created_by]_vars

\* A member of a task's board has sent an update of the task while there
\* is another board, of which they are not a member; the task is on its
\* board and has its creator.
C23_Witness ==
    /\ resp.op = "task_partial_update"
    /\ resp.id \in DOMAIN tasks
    /\ resp.user \in boards[tasks[resp.id].board].members
    /\ tasks[resp.id].created_by = resp.user
    /\ \E b \in DOMAIN boards \ {tasks[resp.id].board} :
            resp.user \notin boards[b].members /\ boards[b].members # {}

====
